---- MODULE Spec2Model ----
(***************************************************************************)
(* SEIR simulator with parameter estimation (the notebook                  *)
(* "SEIR Simulator with Parameter Estimation in Python.ipynb").            *)
(*                                                                         *)
(* Numbers.  The notebook computes in floating point; here every quantity  *)
(* is an integer.  A rate is an integer number of 1/day.  A compartment    *)
(* value is a fixed-point number: an integer count of 1/scale persons,     *)
(* where the scale belongs to the trajectory it is part of.  odeint is     *)
(* modelled as the explicit Euler scheme with Sub internal steps per grid  *)
(* day, carried out without rounding: a step multiplies the fixed-point    *)
(* scale by Sub instead of dividing the derivative by it.  The one         *)
(* division of the program, the "/N" of ode_model, rounds towards zero.    *)
(* A non-finite float (nan, inf) is the value NaN.                         *)
(***************************************************************************)
EXTENDS Integers, Sequences, FiniteSets, TLC

VARIABLES df_covid_history, days, params, initial_conditions, tspan, data,
          result, observed_IR, fitted_predicted, fitted_predicted_IR, call

vars == <<df_covid_history, days, params, initial_conditions, tspan, data,
          result, observed_IR, fitted_predicted, fitted_predicted_IR, call>>

nbvars == <<df_covid_history, days, params, initial_conditions, tspan, data,
            result, observed_IR, fitted_predicted, fitted_predicted_IR>>

(***************************************************************************)
(* Bounds of the model.                                                    *)
(***************************************************************************)
\* largest rate (1/day) a slider or the optimizer hands to the integrator
MaxP == 1
\* largest number of grid points of a directly called simulation
MaxT == 3
\* largest total population of a directly called simulation
MaxN == 6
\* largest initial E, I or R of a directly called simulation
MaxC == 2
\* largest number of records the data source returns
MaxObs == 3

(***************************************************************************)
(* Values of the notebook, in the units of the model.                      *)
(***************************************************************************)
\* a notebook name that no executed cell has assigned yet, and an assigned one
Undef == [def |-> FALSE]
Val(x) == [def |-> TRUE, v |-> x]
\* a non-finite float
NaN == <<>>

\* initN, initE, initI, initR of the parameter cell (scaled-down population)
InitN == 6
InitE == 1
InitI == 2
InitR == 0
\* beta = R0 * gamma = 4/2.9, sigma = 1/5.2, gamma = 1/2.9, to the nearest 1/day
InitBeta == 1
InitSigma == 0
InitGamma == 0
\* days = 112 of the parameter cell: more days than the data source has records
SetupDays == 5
\* params.add(..., min=0, max=10)
PMin == 0
\* max=min in place of max=10
PMax_zero == PMin
PMax == 10
\* FloatSlider(min=0, max=4) of beta, sigma and gamma
SliderRateMin == 0
SliderRateMax == 4
\* beta = 1.08, sigma = 0.02, gamma = 0.02 of the fit setup, to the nearest 1/day
FitBeta == 1
FitSigma == 0
FitGamma == 0
\* days = 45 of the fit setup: fewer days than the data source has records
FitDays == 2

ParNames == {"beta", "sigma", "gamma"}

(***************************************************************************)
(* Arithmetic helpers.                                                     *)
(***************************************************************************)
Abs(x) == IF x < 0 THEN -x ELSE x

Min(a, b) == IF a <= b THEN a ELSE b

Max(a, b) == IF a >= b THEN a ELSE b

\* a / b rounded towards zero (b # 0), the symmetric rounding of a float quotient
Quot(a, b) == IF (a >= 0) = (b > 0) THEN Abs(a) \div Abs(b) ELSE -(Abs(a) \div Abs(b))

RECURSIVE Pow(_, _)
Pow(b, n) == IF n = 0 THEN 1 ELSE b * Pow(b, n - 1)

RECURSIVE SumSeq(_)
SumSeq(s) == IF Len(s) = 0 THEN 0 ELSE s[1] + SumSeq(Tail(s))

\* multiply a compartment state (or NaN) by a fixed-point factor
Mul(z, k) == IF z = NaN THEN NaN ELSE [i \in 1..4 |-> k * z[i]]

(***************************************************************************)
(* ode_model: the right-hand side of the SEIR equations.  The result is    *)
(* the derivative in (unit of z) per day.  With N = 0 the float division   *)
(* of numpy yields nan or inf (a RuntimeWarning, no exception).            *)
(***************************************************************************)
\* ode_model with sigma*I in place of sigma*E in dEdt
ode_model_leak(z, beta, sigma, gamma) ==
    LET S == z[1]
        E == z[2]
        I == z[3]
        R == z[4]
        N == S + E + I + R
    IN  IF N = 0
        THEN NaN
        ELSE <<-Quot(beta * S * I, N), Quot(beta * S * I, N) - sigma * I,
               sigma * E - gamma * I, gamma * I>>

\* ode_model with the removal flow of dIdt and dRdt exchanged
ode_model_swapped(z, beta, sigma, gamma) ==
    LET S == z[1]
        E == z[2]
        I == z[3]
        R == z[4]
        N == S + E + I + R
    IN  IF N = 0
        THEN NaN
        ELSE <<-Quot(beta * S * I, N), Quot(beta * S * I, N) - sigma * E,
               sigma * E + gamma * I, -gamma * I>>

\* the outflow of I computed from the removed compartment
ode_model_removal(z, beta, sigma, gamma) ==
    LET S == z[1]
        E == z[2]
        I == z[3]
        R == z[4]
        N == S + E + I + R
    IN  IF N = 0 THEN NaN
        ELSE <<-Quot(beta * S * I, N), Quot(beta * S * I, N) - sigma * E,
               sigma * E - gamma * R, gamma * I>>

ode_model(z, beta, sigma, gamma) ==
    LET S == z[1]
        E == z[2]
        I == z[3]
        R == z[4]
        N == S + E + I + R
    IN  IF N = 0
        THEN NaN
        ELSE LET dSdt == -Quot(beta * S * I, N)
                 dEdt == Quot(beta * S * I, N) - sigma * E
                 dIdt == sigma * E - gamma * I
                 dRdt == gamma * I
             IN  <<dSdt, dEdt, dIdt, dRdt>>

(***************************************************************************)
(* odeint.  Sub internal steps per grid day, enough for every rate the     *)
(* model integrates (h * rate <= 1, as the step-size control of the        *)
(* library ensures).  A state of scale s becomes a state of scale s * Sub  *)
(* by one step: Sub * z + f(z) = Sub * (z + f(z) / Sub).                   *)
(***************************************************************************)
Sub == Max(1, Max(MaxP, Max(InitBeta, Max(InitSigma, InitGamma))))

EulerStep(z, beta, sigma, gamma) ==
    IF z = NaN
    THEN NaN
    ELSE LET d == ode_model(z, beta, sigma, gamma)
         IN  IF d = NaN THEN NaN ELSE [i \in 1..4 |-> Sub * z[i] + d[i]]

RECURSIVE Advance(_, _, _, _, _)
Advance(z, beta, sigma, gamma, n) ==
    IF n = 0 THEN z
    ELSE Advance(EulerStep(z, beta, sigma, gamma), beta, sigma, gamma, n - 1)

\* the fixed-point scale of a trajectory of T grid points
ScaleOf(T) == Pow(Sub, Sub * (T - 1))

\* the rows at T grid points from the rows at the first T - 1: one more day of steps
ExtendRows(prev, T, beta, sigma, gamma) ==
    Append([j \in 1..(T - 1) |-> Mul(prev[j], Pow(Sub, Sub))],
           Advance(prev[T - 1], beta, sigma, gamma, Sub))

\* the rows of the trajectory at the T >= 1 grid points, all of scale ScaleOf(T)
RECURSIVE GridRows(_, _, _, _, _)
GridRows(y0, T, beta, sigma, gamma) ==
    IF T = 1 THEN <<y0>>
    ELSE ExtendRows(GridRows(y0, T - 1, beta, sigma, gamma), T, beta, sigma, gamma)

\* odeint never raises on a failed integration (it warns); its output has one
\* row per grid point and the first row is y0
odeint(y0, T, beta, sigma, gamma) ==
    [scale |-> ScaleOf(T), rows |-> GridRows(y0, T, beta, sigma, gamma)]

(***************************************************************************)
(* ode_solver(t, initial_conditions, params); t = arange(0, T, 1), T >= 1. *)
(***************************************************************************)
\* ode_solver that forgets initR when it derives initS
ode_solver_noR(T, ic, p) ==
    odeint(<<ic[4] - (ic[1] + ic[2]), ic[1], ic[2], ic[3]>>, T,
           p["beta"].value, p["sigma"].value, p["gamma"].value)

ode_solver(T, ic, p) ==
    LET initE == ic[1]
        initI == ic[2]
        initR == ic[3]
        initN == ic[4]
        beta == p["beta"].value
        sigma == p["sigma"].value
        gamma == p["gamma"].value
        initS == initN - (initE + initI + initR)
        res == odeint(<<initS, initE, initI, initR>>, T, beta, sigma, gamma)
    IN  res

(***************************************************************************)
(* lmfit Parameters.  A Parameter holds value, min, max and vary; reading  *)
(* .value after an assignment yields the assigned number brought into      *)
(* [min, max].                                                             *)
(***************************************************************************)
Clip(v, lo, hi) == IF v < lo THEN lo ELSE IF v > hi THEN hi ELSE v

Parameter(value, lo, hi) == [value |-> Clip(value, lo, hi), min |-> lo, max |-> hi, vary |-> TRUE]

SetValue(par, v) == [par EXCEPT !.value = Clip(v, par.min, par.max)]

SetValues(p, beta, sigma, gamma) ==
    [p EXCEPT !["beta"] = SetValue(@, beta),
              !["sigma"] = SetValue(@, sigma),
              !["gamma"] = SetValue(@, gamma)]

\* params = Parameters(); params.add('beta', ...); params.add('sigma', ...); ...
NewParams ==
    [n \in ParNames |->
        Parameter(CASE n = "beta" -> InitBeta [] n = "sigma" -> InitSigma [] OTHER -> InitGamma,
                  PMin, PMax)]

Rates(p) == <<p["beta"].value, p["sigma"].value, p["gamma"].value>>

(***************************************************************************)
(* error(params, initial_conditions, tspan, data):                         *)
(*     (sol[:, 2:4] - data).ravel()                                        *)
(* sol[:, 2:4] has T rows, data has M rows of (infected, removed).  numpy  *)
(* subtracts arrays of equal shape, stretches an array of one row to the   *)
(* shape of the other, and raises ValueError for any other two shapes.     *)
(* ravel() lays the rows out one after the other.  data is in persons and  *)
(* the residual in the fixed-point unit of sol.                            *)
(***************************************************************************)
BroadcastOk(T, M) == T = M \/ T = 1 \/ M = 1

BroadcastRows(T, M) == IF T = 1 THEN M ELSE T

\* ravel in column-major order: the first column, then the second
Ravel_columns(m) ==
    [k \in 1..(2 * Len(m)) |-> IF k <= Len(m) THEN m[k][1] ELSE m[k - Len(m)][2]]

Ravel(m) == [k \in 1..(2 * Len(m)) |-> m[(k + 1) \div 2][2 - (k % 2)]]

\* (sol[:, 2:4] - data).ravel() for a trajectory sol of T rows
Residual(sol, T, dat) ==
    LET M == Len(dat)
        n == BroadcastRows(T, M)
        diff == [r \in 1..n |->
                    LET srow == sol.rows[IF T = 1 THEN 1 ELSE r]
                        drow == dat[IF M = 1 THEN 1 ELSE r]
                    IN  <<srow[3] - sol.scale * drow[1], srow[4] - sol.scale * drow[2]>>]
    IN  IF BroadcastOk(T, M)
        THEN [raised |-> "none", value |-> Ravel(diff)]
        ELSE [raised |-> "ValueError", value |-> <<>>]

error(p, ic, T, dat) == Residual(ode_solver(T, ic, p), T, dat)

\* a flat vector laid out column by column
Reshape_columns(v, rows) ==
    IF Len(v) # 2 * rows
    THEN [raised |-> "ValueError", value |-> <<>>]
    ELSE [raised |-> "none", value |-> [k \in 1..rows |-> <<v[k], v[rows + k]>>]]

\* v.reshape((rows, 2)): row-major, a ValueError when the sizes differ
Reshape(v, rows) ==
    IF Len(v) # 2 * rows
    THEN [raised |-> "ValueError", value |-> <<>>]
    ELSE [raised |-> "none", value |-> [k \in 1..rows |-> <<v[2 * k - 1], v[2 * k]>>]]

\* dat + r for the reshaped residual r, in the fixed-point scale of the residual
AddData(dat, r, scale) ==
    IF r.raised # "none" THEN r
    ELSE [raised |-> "none",
          value |-> [k \in 1..Len(dat) |->
                        <<scale * dat[k][1] + r.value[k][1], scale * dat[k][2] + r.value[k][2]>>]]

\* final = data + result.residual.reshape(data.shape); the residual has two entries
\* per grid day of the trajectory it was computed from
final(dat, residual) ==
    AddData(dat, Reshape(residual, Len(dat)), ScaleOf(Len(residual) \div 2))

(***************************************************************************)
(* The data source and the frame built from it.  covid_history is the      *)
(* list of day records in the order the data source returned them.         *)
(***************************************************************************)
\* the counts the data source reports for a day
Summary(day) == [total |-> 2 * day + 2, discharged |-> (day + 1) \div 2, deaths |-> day \div 2]

\* the two arrival orders the notebook runs are started from: oldest or newest first
Ascending(M) == [i \in 1..M |-> i - 1]

Descending(M) == [i \in 1..M |-> M - i]

\* pd.DataFrame(...) gives record number i the index label i
RawFrame(covid_history) ==
    [i \in 1..Len(covid_history) |->
        [label |-> i - 1,
         day |-> covid_history[i],
         total |-> Summary(covid_history[i]).total,
         discharged |-> Summary(covid_history[i]).discharged,
         deaths |-> Summary(covid_history[i]).deaths]]

\* sort_values(by='day'): the rows in ascending day order, each keeping its label
SortByDay(f) ==
    [k \in 1..Len(f) |->
        f[CHOOSE i \in 1..Len(f) : Cardinality({j \in 1..Len(f) : f[j].day < f[i].day}) = k - 1]]

\* the two derived columns
WithDerived(f) ==
    [k \in 1..Len(f) |->
        [label |-> f[k].label, day |-> f[k].day,
         infected |-> f[k].total - f[k].discharged - f[k].deaths,
         total_recovered_or_dead |-> f[k].discharged + f[k].deaths]]

BuildFrame(covid_history) == WithDerived(SortByDay(RawFrame(covid_history)))

\* .loc[:, ['infected', 'total_recovered_or_dead']].values of a sequence of rows
IRValues(f) == [k \in 1..Len(f) |-> <<f[k].infected, f[k].total_recovered_or_dead>>]

(***************************************************************************)
(* Direct calls of the pure functions: the arguments are drawn in the      *)
(* initial state, the call is the one step.                                *)
(***************************************************************************)
RateSet == 0..MaxP

\* initial conditions <<initE, initI, initR, initN>> of a direct call: the ones
\* whose compartments fit in the population, an empty population, and the
\* ones that exceed the population by one individual
ICSet == {ic \in (0..MaxC) \X (0..MaxC) \X (0..MaxC) \X (0..MaxN) :
            ic[4] = 0 \/ ic[1] + ic[2] + ic[3] <= ic[4] + 1}

\* observed (infected, removed) rows a directly called error() is given
DataRows == {<<2, 0>>, <<3, 1>>}

DataSet == UNION {[1..M -> DataRows] : M \in 1..MaxObs}

ParamsOf(beta, sigma, gamma) == SetValues(NewParams, beta, sigma, gamma)

NotebookInit ==
    /\ \E a \in {Ascending(M) : M \in 1..MaxObs} \cup {Descending(MaxObs)} :
            df_covid_history = BuildFrame(a)
    /\ days = SetupDays
    /\ params = NewParams
    /\ initial_conditions = Undef
    /\ tspan = Undef
    /\ data = Undef
    /\ result = Undef
    /\ observed_IR = Undef
    /\ fitted_predicted = Undef
    /\ fitted_predicted_IR = Undef

InitCall ==
    /\ df_covid_history = BuildFrame(<<0>>)
    /\ days = SetupDays
    /\ params = NewParams
    /\ initial_conditions = Undef
    /\ tspan = Undef
    /\ data = Undef
    /\ result = Undef
    /\ observed_IR = Undef
    /\ fitted_predicted = Undef
    /\ fitted_predicted_IR = Undef
    /\ \/ \E T \in 1..MaxT, ic \in ICSet, b \in RateSet, s \in RateSet, g \in RateSet :
            call = [fn |-> "ode_solver", done |-> FALSE, T |-> T, ic |-> ic,
                    p |-> ParamsOf(b, s, g)]
       \/ \E T \in 1..MaxT, dat \in DataSet, b \in RateSet, s \in RateSet, g \in RateSet :
            call = [fn |-> "error", done |-> FALSE, T |-> T, ic |-> <<InitE, InitI, InitR, InitN>>,
                    p |-> ParamsOf(b, s, g), data |-> dat]
       \/ \E ic \in ICSet, b \in RateSet, s \in RateSet, g \in RateSet :
            call = [fn |-> "ode_model", done |-> FALSE,
                    z |-> <<ic[4] - (ic[1] + ic[2] + ic[3]), ic[1], ic[2], ic[3]>>,
                    beta |-> b, sigma |-> s, gamma |-> g]

CallOdeSolver ==
    /\ call.fn = "ode_solver" /\ ~call.done
    /\ call' = [fn |-> "ode_solver", done |-> TRUE, T |-> call.T, ic |-> call.ic, p |-> call.p,
                raised |-> "none", value |-> ode_solver(call.T, call.ic, call.p)]
    /\ UNCHANGED nbvars

CallOdeModel ==
    /\ call.fn = "ode_model" /\ ~call.done
    /\ call' = [fn |-> "ode_model", done |-> TRUE, z |-> call.z,
                beta |-> call.beta, sigma |-> call.sigma, gamma |-> call.gamma,
                raised |-> "none", value |-> ode_model(call.z, call.beta, call.sigma, call.gamma)]
    /\ UNCHANGED nbvars

CallError ==
    /\ call.fn = "error" /\ ~call.done
    /\ call' = [fn |-> "error", done |-> TRUE, T |-> call.T, ic |-> call.ic, p |-> call.p,
                data |-> call.data, out |-> error(call.p, call.ic, call.T, call.data)]
    /\ UNCHANGED nbvars

NextCall == CallOdeSolver \/ CallOdeModel \/ CallError

SpecCall == InitCall /\ [][NextCall]_vars

(***************************************************************************)
(* df.loc[a:b] on the sorted frame: a slice by index label, both ends      *)
(* included.  A label that is present stands for its position; an absent   *)
(* label is located by order when the labels are monotonic, and is a       *)
(* KeyError otherwise.                                                     *)
(***************************************************************************)
Labels(f) == [k \in 1..Len(f) |-> f[k].label]

MonotonicIncreasing(l) == \A k \in 1..(Len(l) - 1) : l[k] <= l[k + 1]

MonotonicDecreasing(l) == \A k \in 1..(Len(l) - 1) : l[k] >= l[k + 1]

HasLabel(l, x) == \E k \in 1..Len(l) : l[k] = x

PosOf(l, x) == CHOOSE k \in 1..Len(l) : l[k] = x

\* number of rows before the slice bound of label x; -1 for a KeyError
SliceBound(l, x, right) ==
    IF HasLabel(l, x) THEN (IF right THEN PosOf(l, x) ELSE PosOf(l, x) - 1)
    ELSE IF MonotonicIncreasing(l) THEN Cardinality({k \in 1..Len(l) : l[k] < x})
    ELSE IF MonotonicDecreasing(l) THEN Cardinality({k \in 1..Len(l) : l[k] > x})
    ELSE -1

LocSlice(f, a, b) ==
    LET l == Labels(f)
        start == SliceBound(l, a, FALSE)
        stop == SliceBound(l, b, TRUE)
    IN  IF start = -1 \/ stop = -1
        THEN [raised |-> "KeyError", value |-> <<>>]
        ELSE [raised |-> "none",
              value |-> IF stop > start THEN SubSeq(f, start + 1, stop) ELSE <<>>]

(***************************************************************************)
(* minimize(error, params, args=(initial_conditions, tspan, data),         *)
(*          method='leastsq').                                             *)
(* The minimizer works on its own copy of params.  Its search is modelled  *)
(* as a descent on the grid of integer rates: from the current point it    *)
(* evaluates error at the neighbours that lie within [min, max] of each    *)
(* varying parameter and moves to the best one while the sum of squares    *)
(* decreases and the evaluation budget lasts.                              *)
(***************************************************************************)
\* max_nfev of leastsq: 2000 * (number of varying parameters + 1)
MaxNfev(p) == 2000 * (Cardinality({n \in ParNames : p[n].vary}) + 1)

SumSq(r) == SumSeq([k \in 1..Len(r) |-> r[k] * r[k]])

\* trial points taken without regard to the bounds
Neighbours_unbounded(p, pt) ==
    {q \in (-1..MaxP) \X (-1..MaxP) \X (-1..MaxP) :
        /\ q # pt
        /\ Abs(q[1] - pt[1]) + Abs(q[2] - pt[2]) + Abs(q[3] - pt[3]) = 1
        /\ (q[1] # pt[1]) => p["beta"].vary
        /\ (q[2] # pt[2]) => p["sigma"].vary
        /\ (q[3] # pt[3]) => p["gamma"].vary}

\* the trial points next to the rates pt, inside the bounds of p and on the grid
Neighbours(p, pt) ==
    {q \in (-1..MaxP) \X (-1..MaxP) \X (-1..MaxP) :
        /\ q # pt
        /\ Abs(q[1] - pt[1]) + Abs(q[2] - pt[2]) + Abs(q[3] - pt[3]) = 1
        /\ (q[1] # pt[1]) => (p["beta"].vary /\ p["beta"].min <= q[1] /\ q[1] <= p["beta"].max)
        /\ (q[2] # pt[2]) => (p["sigma"].vary /\ p["sigma"].min <= q[2] /\ q[2] <= p["sigma"].max)
        /\ (q[3] # pt[3]) => (p["gamma"].vary /\ p["gamma"].min <= q[3] /\ q[3] <= p["gamma"].max)}

ChiAt(p, pt, ic, T, dat) == SumSq(error(SetValues(p, pt[1], pt[2], pt[3]), ic, T, dat).value)

\* (chi-square, beta, sigma, gamma) in dictionary order
Before(c1, q1, c2, q2) ==
    \/ c1 < c2
    \/ c1 = c2 /\ q1[1] < q2[1]
    \/ c1 = c2 /\ q1[1] = q2[1] /\ q1[2] < q2[2]
    \/ c1 = c2 /\ q1[1] = q2[1] /\ q1[2] = q2[2] /\ q1[3] < q2[3]

RECURSIVE Descend(_, _, _, _, _, _, _)

\* one iteration: nb the trial points, chiOf their sums of squares, best the least;
\* evals collects the points error was evaluated at
DescendTo(p, pt, chi, nfev, ic, T, dat, nb, chiOf, best) ==
    IF nfev + Cardinality(nb) > MaxNfev(p)
    THEN [pt |-> pt, nfev |-> nfev, success |-> FALSE, evals |-> {pt}]
    ELSE IF chiOf[best] < chi
    THEN [Descend(p, best, chiOf[best], nfev + Cardinality(nb), ic, T, dat)
             EXCEPT !.evals = @ \cup nb \cup {pt}]
    ELSE [pt |-> pt, nfev |-> nfev + Cardinality(nb), success |-> TRUE, evals |-> nb \cup {pt}]

DescendOver(p, pt, chi, nfev, ic, T, dat, nb, chiOf) ==
    DescendTo(p, pt, chi, nfev, ic, T, dat, nb, chiOf,
              CHOOSE q \in nb : \A r \in nb : q = r \/ Before(chiOf[q], q, chiOf[r], r))

DescendAmong(p, pt, chi, nfev, ic, T, dat, nb) ==
    IF nb = {} THEN [pt |-> pt, nfev |-> nfev, success |-> TRUE, evals |-> {pt}]
    ELSE DescendOver(p, pt, chi, nfev, ic, T, dat, nb, [q \in nb |-> ChiAt(p, q, ic, T, dat)])

Descend(p, pt, chi, nfev, ic, T, dat) ==
    DescendAmong(p, pt, chi, nfev, ic, T, dat, Neighbours(p, pt))

\* the fit statistics of a MinimizerResult (what report_fit prints)
Nvarys(p) == Cardinality({n \in ParNames : p[n].vary})

\* degrees of freedom taken to be the number of data points
Nfree_ndata(ndata, nvarys) == ndata

Nfree(ndata, nvarys) == ndata - nvarys

\* chi-square / degrees of freedom as a fraction
Redchi(chisqr, nfree) == [num |-> chisqr, den |-> Max(1, nfree)]

\* information criteria that count one more parameter for the noise variance
InfoCrit_noise(ndata, chisqr, nvarys) ==
    [aic |-> [neg2_log_likel |-> [n |-> ndata, rss |-> chisqr],
              per_parameter |-> "2", k |-> nvarys + 1],
     bic |-> [neg2_log_likel |-> [n |-> ndata, rss |-> chisqr],
              per_parameter |-> "ln(n)", k |-> nvarys + 1]]

\* aic = n*ln(rss/n) + 2*k and bic = n*ln(rss/n) + ln(n)*k: the logarithms are kept
\* as terms, k is the number the penalty multiplies
InfoCrit(ndata, chisqr, nvarys) ==
    [aic |-> [neg2_log_likel |-> [n |-> ndata, rss |-> chisqr],
              per_parameter |-> "2", k |-> nvarys],
     bic |-> [neg2_log_likel |-> [n |-> ndata, rss |-> chisqr],
              per_parameter |-> "ln(n)", k |-> nvarys]]

\* the output of report_fit(result) recorded in the notebook, aic and bic in units
\* of 1e-5, chi-square in units of 1e-1 and reduced chi-square in units of 1e-3
ReportedFit ==
    [nfev |-> 64, ndata |-> 90, nvarys |-> 3, chisqr |-> 258432955, redchi |-> 297049373,
     aic |-> 113709769, bic |-> 114459712]

\* ln(90) in units of 1e-5
LnReportedNdata == 449981

Statistics(residual, ndata, nvarys, chisqr, nfree, crit) ==
    [residual |-> residual, ndata |-> ndata, nvarys |-> nvarys, chisqr |-> chisqr,
     nfree |-> nfree, redchi |-> Redchi(chisqr, nfree), aic |-> crit.aic, bic |-> crit.bic]

StatisticsFor(residual, ndata, nvarys, chisqr) ==
    Statistics(residual, ndata, nvarys, chisqr, Nfree(ndata, nvarys),
               InfoCrit(ndata, chisqr, nvarys))

StatisticsOf(residual, nvarys) ==
    StatisticsFor(residual, Len(residual), nvarys, SumSq(residual))

\* the MinimizerResult for the end of the descent
FitResultWith(p, end, fitted, st) ==
    [params |-> fitted,
     init_vals |-> Rates(p),
     residual |-> st.residual,
     nfev |-> end.nfev,
     success |-> end.success,
     ndata |-> st.ndata, nvarys |-> st.nvarys, nfree |-> st.nfree,
     chisqr |-> st.chisqr, redchi |-> st.redchi, aic |-> st.aic, bic |-> st.bic]

FitResult(p, ic, T, dat, end, fitted) ==
    FitResultWith(p, end, fitted, StatisticsOf(error(fitted, ic, T, dat).value, Nvarys(p)))

FitFrom(p, ic, T, dat, end) ==
    FitResult(p, ic, T, dat, end, SetValues(p, end.pt[1], end.pt[2], end.pt[3]))

\* the outcome of minimize with the points the search evaluated error at
MinimizeEnd(p, ic, T, dat, end) ==
    [raised |-> "none", value |-> FitFrom(p, ic, T, dat, end), evals |-> end.evals]

MinimizeFrom(p, ic, T, dat, first) ==
    IF first.raised # "none"
    THEN [raised |-> first.raised, value |-> Undef, evals |-> {Rates(p)}]
    ELSE MinimizeEnd(p, ic, T, dat, Descend(p, Rates(p), SumSq(first.value), 1, ic, T, dat))

minimize(p, ic, T, dat) == MinimizeFrom(p, ic, T, dat, error(p, ic, T, dat))

(***************************************************************************)
(* The notebook: one action per cell or callback.                          *)
(***************************************************************************)
\* slider positions the model draws (every slider has min=0): the defaults, the
\* population slider at 0, and the days slider at 0
SliderStates == {[ic |-> <<InitE, InitI, InitR, InitN>>, days |-> MaxT],
                 [ic |-> <<InitE, InitI, InitR, 0>>, days |-> MaxT],
                 [ic |-> <<InitE, InitI, InitR, InitN>>, days |-> 0]}

SliderRates == {SliderRateMin, Min(SliderRateMax, MaxP)}

\* positions <<beta, sigma, gamma>> of the three rate sliders the model draws: all at
\* the minimum, all at the maximum, and sigma alone at the maximum
SliderRateStates ==
    {r \in SliderRates \X SliderRates \X SliderRates :
        \/ r[1] = r[2] /\ r[2] = r[3]
        \/ r[1] = SliderRateMin /\ r[3] = SliderRateMin}

Init ==
    /\ NotebookInit
    /\ call = [fn |-> "setup", raised |-> "none"]

\* the parameter cell, executed again
ParamSetup ==
    /\ days' = SetupDays
    /\ params' = NewParams
    /\ call' = [fn |-> "setup", raised |-> "none"]
    /\ UNCHANGED <<df_covid_history, initial_conditions, tspan, data, result, observed_IR,
                   fitted_predicted, fitted_predicted_IR>>

\* main(initE, initI, initR, initN, beta, sigma, gamma, days, param_fitting), called by
\* interact on every slider change.  With days = 0 the time grid is empty and odeint
\* reads t[0] of an empty array: it raises or returns an empty trajectory.
Main ==
    \E sl \in SliderStates, r \in SliderRateStates :
        LET beta == r[1]
            sigma == r[2]
            gamma == r[3]
            ic == sl.ic
            d == sl.days
            p1 == SetValues(params, beta, sigma, gamma)
            args == [ic |-> ic, beta |-> beta, sigma |-> sigma, gamma |-> gamma, days |-> d]
        IN  /\ params' = p1
            /\ IF d >= 1
               THEN call' = [fn |-> "main", args |-> args, raised |-> "none",
                             sol |-> ode_solver(d, ic, p1)]
               ELSE \/ call' = [fn |-> "main", args |-> args, raised |-> "none",
                                sol |-> [scale |-> 1, rows |-> <<>>]]
                    \/ call' = [fn |-> "main", args |-> args, raised |-> "Exception"]
            /\ UNCHANGED <<df_covid_history, days, initial_conditions, tspan, data, result,
                           observed_IR, fitted_predicted, fitted_predicted_IR>>

\* the fit setup cell; a KeyError of .loc ends the cell before data is assigned
FitSetupWith(sl) ==
    /\ initial_conditions' = Val(<<InitE, InitI, InitR, InitN>>)
    /\ params' = SetValues(params, FitBeta, FitSigma, FitGamma)
    /\ days' = FitDays
    /\ tspan' = Val(FitDays)
    /\ data' = IF sl.raised = "none" THEN Val(IRValues(sl.value)) ELSE data
    /\ call' = [fn |-> "fit_setup", raised |-> sl.raised]
    /\ UNCHANGED <<df_covid_history, result, observed_IR, fitted_predicted,
                   fitted_predicted_IR>>

FitSetup == FitSetupWith(LocSlice(df_covid_history, 0, FitDays - 1))

\* result = minimize(...); an exception of error leaves result unassigned
MinimizeWith(m) ==
    /\ result' = IF m.raised = "none" THEN Val(m.value) ELSE result
    /\ call' = [fn |-> "minimize", raised |-> m.raised, start |-> Rates(params),
                evals |-> m.evals]
    /\ UNCHANGED <<df_covid_history, days, params, initial_conditions, tspan, data,
                   observed_IR, fitted_predicted, fitted_predicted_IR>>

Minimize ==
    /\ initial_conditions.def /\ tspan.def /\ data.def
    /\ MinimizeWith(minimize(params, initial_conditions.v, tspan.v, data.v))

\* the "Observed vs Fitted" cell: final is computed and plotted
FinalWith(f) ==
    /\ call' = [fn |-> "final", raised |-> f.raised, final |-> f.value]
    /\ UNCHANGED nbvars

FinalCell ==
    /\ data.def /\ result.def
    /\ FinalWith(final(data.v, result.v.residual))

\* observed_IR = df_covid_history.loc[:, [...]].values
ObservedCell ==
    /\ observed_IR' = Val(IRValues(df_covid_history))
    /\ call' = [fn |-> "observed", raised |-> "none"]
    /\ UNCHANGED <<df_covid_history, days, params, initial_conditions, tspan, data, result,
                   fitted_predicted, fitted_predicted_IR>>

\* the forecast run with params as they are, the fitted values not copied in
Forecast_stale ==
    /\ observed_IR.def /\ result.def /\ initial_conditions.def
    /\ params' = params
    /\ fitted_predicted' = Val(ode_solver(Len(observed_IR.v), initial_conditions.v, params))
    /\ call' = [fn |-> "forecast", raised |-> "none", before |-> Rates(params)]
    /\ UNCHANGED <<df_covid_history, days, initial_conditions, tspan, data, result,
                   observed_IR, fitted_predicted_IR>>

\* the forecast cell: the fitted values are written into params, then ode_solver runs
\* over the whole observed grid
Forecast ==
    /\ observed_IR.def /\ result.def /\ initial_conditions.def
    /\ LET p1 == SetValues(params, result.v.params["beta"].value,
                           result.v.params["sigma"].value, result.v.params["gamma"].value)
       IN  /\ params' = p1
           /\ fitted_predicted' = Val(ode_solver(Len(observed_IR.v), initial_conditions.v, p1))
           /\ call' = [fn |-> "forecast", raised |-> "none", before |-> Rates(params)]
    /\ UNCHANGED <<df_covid_history, days, initial_conditions, tspan, data, result,
                   observed_IR, fitted_predicted_IR>>

\* fitted_predicted_IR = fitted_predicted[:, 2:4]
ForecastIRCell ==
    /\ fitted_predicted.def
    /\ fitted_predicted_IR' =
          Val([scale |-> fitted_predicted.v.scale,
               rows |-> [k \in 1..Len(fitted_predicted.v.rows) |->
                            IF fitted_predicted.v.rows[k] = NaN THEN NaN
                            ELSE <<fitted_predicted.v.rows[k][3], fitted_predicted.v.rows[k][4]>>]])
    /\ call' = [fn |-> "forecast_IR", raised |-> "none"]
    /\ UNCHANGED <<df_covid_history, days, params, initial_conditions, tspan, data, result,
                   observed_IR, fitted_predicted>>

\* the positions a[lo:hi] of numpy selects in an array of n entries (lo, hi >= 0)
SliceIndices(n, lo, hi) == {k \in 0..(n - 1) : lo <= k /\ k < hi}

\* np.mean(np.abs(x - y)) and np.sqrt(np.mean((x - y)**2)) of column col over the
\* positions lo..hi-1 of the forecast fp and of the observed rows obs; the mean of no
\* entries is nan; mae is a fraction, rmse the square root of one
MetricsOver(fp, obs, lo, hi, col) ==
    LET wf == SliceIndices(Len(fp.rows), lo, hi)
        wo == SliceIndices(Len(obs), lo, hi)
        w == wf \cap wo
        first == IF w = {} THEN 0 ELSE CHOOSE k \in w : \A j \in w : k <= j
        d == [i \in 1..Cardinality(w) |->
                 fp.rows[first + i][col] - fp.scale * obs[first + i][col]]
    IN  IF ~BroadcastOk(Cardinality(wf), Cardinality(wo))
        THEN [window |-> w, raised |-> "ValueError", mae |-> NaN, rmse |-> NaN]
        ELSE IF w = {} \/ \E k \in w : fp.rows[k + 1] = NaN
        THEN [window |-> w, raised |-> "none", mae |-> NaN, rmse |-> NaN]
        ELSE [window |-> w, raised |-> "none",
              mae |-> [num |-> SumSeq([i \in 1..Len(d) |-> Abs(d[i])]),
                       den |-> fp.scale * Cardinality(w)],
              rmse |-> [num |-> SumSq(d), den |-> fp.scale * fp.scale * Cardinality(w)]]

MetricsCall(name, infected, removed) ==
    [fn |-> name,
     raised |-> IF infected.raised # "none" THEN infected.raised ELSE removed.raised,
     window |-> infected.window,
     mae |-> <<infected.mae, removed.mae>>,
     rmse |-> <<infected.rmse, removed.rmse>>]

\* the "Fitted MAE" / "Fitted RMSE" cell: the slices [:days]
FittedMetrics ==
    /\ fitted_predicted_IR.def /\ observed_IR.def
    /\ call' = MetricsCall("fitted_metrics",
                            MetricsOver(fitted_predicted_IR.v, observed_IR.v, 0, days, 1),
                            MetricsOver(fitted_predicted_IR.v, observed_IR.v, 0, days, 2))
    /\ UNCHANGED nbvars

\* the "Predicted MAE" / "Predicted RMSE" cell: the slices [days:observed_IR.shape[0]]
\* and [days:]
PredictedMetrics ==
    /\ fitted_predicted_IR.def /\ observed_IR.def
    /\ call' = MetricsCall("predicted_metrics",
                            MetricsOver(fitted_predicted_IR.v, observed_IR.v, days,
                                        Len(observed_IR.v), 1),
                            MetricsOver(fitted_predicted_IR.v, observed_IR.v, days,
                                        Len(observed_IR.v), 2))
    /\ UNCHANGED nbvars

Next ==
    \/ ParamSetup \/ Main \/ FitSetup \/ Minimize \/ ObservedCell \/ Forecast
    \/ ForecastIRCell \/ FittedMetrics \/ PredictedMetrics \/ FinalCell

Spec == Init /\ [][Next]_vars

(***************************************************************************)
(* Properties of the directly called functions (specification SpecCall). *)
(***************************************************************************)
SolverDone == call.fn = "ode_solver" /\ call.done

ModelDone == call.fn = "ode_model" /\ call.done

Sum4(z) == z[1] + z[2] + z[3] + z[4]

ValidIC(ic) == ic[1] >= 0 /\ ic[2] >= 0 /\ ic[3] >= 0 /\ ic[4] >= 0 /\ ic[1] + ic[2] + ic[3] <= ic[4]

\* C1: with N > 0 every row of a trajectory of ode_solver sums to N, and the four
\* derivatives returned by ode_model sum to zero.
C1_Conservation ==
    /\ (SolverDone /\ call.ic[4] > 0) =>
          \A j \in 1..Len(call.value.rows) :
              /\ call.value.rows[j] # NaN
              /\ Sum4(call.value.rows[j]) = call.value.scale * call.ic[4]
    /\ (ModelDone /\ Sum4(call.z) # 0) => (call.value # NaN /\ Sum4(call.value) = 0)

\* a trajectory with N > 0 whose compartments moved in the first day
C1_Witness ==
    /\ SolverDone /\ call.ic[4] > 0 /\ call.T >= 2
    /\ call.value.rows[2][1] < call.value.rows[1][1]
    /\ call.value.rows[2][4] > call.value.rows[1][4]

\* C2: ode_solver returns one row per grid point and row 0 is exactly
\* (N - (E0 + I0 + R0), E0, I0, R0), whatever the rates.
C2_InitialExact ==
    SolverDone =>
        /\ call.raised = "none"
        /\ Len(call.value.rows) = call.T
        /\ call.value.rows[1] =
              Mul(<<call.ic[4] - (call.ic[1] + call.ic[2] + call.ic[3]),
                    call.ic[1], call.ic[2], call.ic[3]>>, call.value.scale)

\* a trajectory over the longest grid with R0 > 0 and all three rates positive
C2_Witness ==
    /\ SolverDone /\ call.T = MaxT /\ call.ic[3] > 0 /\ call.ic[4] > 0
    /\ call.p["beta"].value > 0 /\ call.p["sigma"].value > 0 /\ call.p["gamma"].value > 0
    /\ call.value.rows[MaxT] # call.value.rows[1]

\* C3: from valid initial conditions R never decreases from one grid point to the next.
C3_RMonotone ==
    (SolverDone /\ ValidIC(call.ic)) =>
        \A j \in 1..(Len(call.value.rows) - 1) :
            (call.value.rows[j] # NaN /\ call.value.rows[j + 1] # NaN) =>
                call.value.rows[j + 1][4] >= call.value.rows[j][4]

\* a valid trajectory on which R grew
C3_Witness ==
    /\ SolverDone /\ ValidIC(call.ic) /\ call.T >= 2
    /\ call.value.rows[call.T] # NaN
    /\ call.value.rows[call.T][4] > call.value.rows[1][4]

\* C4: integrating with N = 0 fails with a NumericalError (and so returns no
\* trajectory with NaN or infinite values).
C4_DegenerateFails ==
    (SolverDone /\ call.ic[4] = 0 /\ call.T >= 2) => call.raised = "NumericalError"

ErrorDone == call.fn = "error" /\ call.done

\* C6: for T grid days and T observed records, error() returns 2*T entries; entry 2*d
\* is (simulated I - observed I) of day d and entry 2*d+1 is (simulated R - observed R)
\* of day d (entries counted from 0).
C6_Flattening ==
    (ErrorDone /\ Len(call.data) = call.T) =>
        LET sol == ode_solver(call.T, call.ic, call.p)
        IN  /\ call.out.raised = "none"
            /\ Len(call.out.value) = 2 * call.T
            /\ \A d \in 0..(call.T - 1) :
                  /\ call.out.value[2 * d + 1] =
                        sol.rows[d + 1][3] - sol.scale * call.data[d + 1][1]
                  /\ call.out.value[2 * d + 2] =
                        sol.rows[d + 1][4] - sol.scale * call.data[d + 1][2]

\* a residual of the longest grid whose days differ in their observed records
C6_Witness ==
    /\ ErrorDone /\ call.T = MaxT /\ Len(call.data) = MaxT
    /\ call.data[1] # call.data[MaxT]
    /\ call.out.raised = "none"
    /\ call.out.value[1] # call.out.value[2 * MaxT - 1]

\* C7: whenever the number of observed records differs from the number of grid
\* points, error() fails and returns no residual vector.
C7_LengthChecked ==
    (ErrorDone /\ Len(call.data) # call.T) => call.out.raised # "none"

\* C17: from valid initial conditions with N > 0 and rates within [0, 10] every row of
\* the trajectory has S, E, I and R non-negative, and ode_model gives a compartment
\* that is zero a non-negative derivative.
C17_NonNegative ==
    /\ (SolverDone /\ ValidIC(call.ic) /\ call.ic[4] > 0
          /\ \A n \in ParNames : PMin <= call.p[n].value /\ call.p[n].value <= PMax) =>
          \A j \in 1..Len(call.value.rows) :
              /\ call.value.rows[j] # NaN
              /\ \A i \in 1..4 : call.value.rows[j][i] >= 0
    /\ (ModelDone /\ Sum4(call.z) > 0 /\ \A i \in 1..4 : call.z[i] >= 0) =>
          /\ call.value # NaN
          /\ \A i \in 1..4 : call.z[i] = 0 => call.value[i] >= 0

\* a valid trajectory that starts with nobody exposed and a removed group, and on which
\* the exposed compartment filled while the susceptible one emptied
C17_Witness ==
    /\ SolverDone /\ ValidIC(call.ic) /\ call.ic[4] > 0 /\ call.T = MaxT
    /\ call.ic[1] = 0 /\ call.ic[3] > 0
    /\ call.p["gamma"].value > 0
    /\ call.value.rows[MaxT][2] > 0
    /\ call.value.rows[MaxT][1] < call.value.rows[1][1]

\* C20: for T grid days and T observed records, the residual vector of error() reshaped
\* to T rows of 2 columns plus the observed data is the simulated (I, R) of the
\* trajectory, row d holding day d.
C20_RoundTrip ==
    (ErrorDone /\ Len(call.data) = call.T) =>
        LET back == final(call.data, call.out.value)
            sol == ode_solver(call.T, call.ic, call.p)
        IN  /\ call.out.raised = "none"
            /\ back.raised = "none"
            /\ Len(back.value) = call.T
            /\ \A d \in 1..call.T : back.value[d] = <<sol.rows[d][3], sol.rows[d][4]>>

\* a residual of the longest grid whose entries differ between the columns and between
\* the days, from a simulation whose infected and removed both moved
C20_Witness ==
    /\ ErrorDone /\ call.T = MaxT /\ Len(call.data) = MaxT
    /\ call.out.raised = "none"
    /\ call.out.value[2 * MaxT - 1] # call.out.value[2 * MaxT]
    /\ call.out.value[2] # call.out.value[2 * MaxT]
    /\ final(call.data, call.out.value).value[MaxT][1] # final(call.data, call.out.value).value[1][1]
    /\ final(call.data, call.out.value).value[MaxT][2] # final(call.data, call.out.value).value[1][2]

(***************************************************************************)
(* Properties of the notebook (specification Spec).                        *)
(***************************************************************************)
\* C5: a simulation whose initial conditions are negative or have E0 + I0 + R0 > N is
\* rejected with a ValidationError before any integration step.
C5_Validated ==
    (call.fn = "main" /\ ~ValidIC(call.args.ic)) => call.raised = "ValidationError"

\* C8: a simulate call (main) leaves the parameter set exactly as it was.
C8_SimulateKeepsParams == [][call'.fn = "main" => params' = params]_vars

\* C9: the fit and the forecast that follows it leave the caller's parameter set at
\* the starting values given to the fit.
C9_FitKeepsParams == [][call'.fn \in {"minimize", "forecast"} => params' = params]_vars

C12_FitTerminates ==
    call.fn = "minimize" =>
        /\ call.raised = "none"
        /\ result.def
        /\ result.v.nfev <= MaxNfev(params)
        /\ (~result.v.success) => Rates(result.v.params) \in call.evals

\* C13 as claimed: the information criteria of a fit count k = (number of free
\* parameters) + 1, which is 4 for beta, sigma and gamma.
C13_NoiseCounted ==
    (call.fn = "minimize" /\ call.raised = "none") =>
        /\ result.v.aic.k = result.v.nvarys + 1
        /\ result.v.bic.k = result.v.nvarys + 1

\* C13 amended: the information criteria of a fit are n*ln(chisqr/n) + 2*k and
\* n*ln(chisqr/n) + ln(n)*k with n the number of residual entries and k the number of
\* free parameters, 3 for beta, sigma and gamma; the recorded report of the notebook
\* (n = 90) has bic - aic = k*(ln(90) - 2) for k = 3.
C13_VariablesCounted ==
    /\ (call.fn = "minimize" /\ call.raised = "none") =>
          /\ result.v.nvarys = Cardinality({n \in ParNames : params[n].vary})
          /\ result.v.aic.k = result.v.nvarys /\ result.v.aic.per_parameter = "2"
          /\ result.v.bic.k = result.v.nvarys /\ result.v.bic.per_parameter = "ln(n)"
          /\ result.v.aic.neg2_log_likel = [n |-> Len(result.v.residual),
                                            rss |-> SumSq(result.v.residual)]
          /\ result.v.bic.neg2_log_likel = result.v.aic.neg2_log_likel
    /\ result.def =>
          Abs((ReportedFit.bic - ReportedFit.aic)
              - InfoCrit(ReportedFit.ndata, ReportedFit.chisqr, ReportedFit.nvarys).bic.k
                  * (LnReportedNdata - 200000)) <= 1

\* a fit of the three free parameters that ended with a positive chi-square
C13_Witness ==
    /\ call.fn = "minimize" /\ call.raised = "none"
    /\ result.v.nvarys = 3 /\ result.v.bic.k = 3 /\ result.v.chisqr > 0

\* C14: a fit over a window of T days has n = 2*T residual entries, n minus the number
\* of varying parameters degrees of freedom, and a reduced chi-square equal to the sum
\* of squared residuals divided by the degrees of freedom; the recorded report has
\* 90 entries, 87 degrees of freedom and chi-square / 87 as reduced chi-square.
C14_DegreesOfFreedom ==
    /\ (call.fn = "minimize" /\ call.raised = "none") =>
          /\ Len(result.v.residual) = 2 * tspan.v
          /\ result.v.ndata = 2 * tspan.v
          /\ result.v.nfree = result.v.ndata - Cardinality({n \in ParNames : params[n].vary})
          /\ result.v.chisqr = SumSq(result.v.residual)
          /\ result.v.redchi = [num |-> result.v.chisqr, den |-> result.v.nfree]
    /\ result.def =>
          /\ Nfree(ReportedFit.ndata, ReportedFit.nvarys) = 87
          /\ ReportedFit.chisqr \div Nfree(ReportedFit.ndata, ReportedFit.nvarys)
                = ReportedFit.redchi \div 100

\* a fit with more residual entries than free parameters and a positive chi-square
C14_Witness ==
    /\ call.fn = "minimize" /\ call.raised = "none"
    /\ result.v.ndata = 2 * FitDays /\ result.v.nfree >= 1 /\ result.v.nfree < result.v.ndata
    /\ result.v.redchi.num > 0

\* C15: the fit-window metrics are computed over exactly the indices the optimization
\* used and the prediction-window metrics over exactly the remaining observed indices;
\* the prediction-window metrics are never computed over an empty window.
C15_MetricWindows ==
    /\ call.fn = "fitted_metrics" =>
          /\ call.raised = "none"
          /\ call.window = 0..(Len(data.v) - 1)
    /\ call.fn = "predicted_metrics" =>
          /\ call.raised = "none"
          /\ call.window = (0..(Len(observed_IR.v) - 1)) \ (0..(Len(data.v) - 1))
          /\ call.window # {}
          /\ call.mae[1] # NaN /\ call.mae[2] # NaN

\* C16: in whatever order the parameter cell, the simulations and the fit setup are
\* executed between the fit and the error metrics, the metrics split the series at the
\* length of the window the fit was run on.
C16_OrderIndependent ==
    call.fn \in {"fitted_metrics", "predicted_metrics"} =>
        \A k \in 0..(Len(observed_IR.v) - 1) :
            (k < result.v.ndata \div 2) <=> (k \in call.window <=> call.fn = "fitted_metrics")

\* C18: with T <= M, the forecast over the grid 0..M-1 with the fitted parameters has on
\* the days 0..T-1 the (I, R) values of the fitted trajectory
\* final = data + residual.reshape(data.shape).
C18_ForecastAgrees ==
    (call.fn = "forecast" /\ tspan.v <= Len(observed_IR.v)) =>
        LET fit == final(data.v, result.v.residual)
            sT == ScaleOf(tspan.v)
            sM == fitted_predicted.v.scale
        IN  /\ fit.raised = "none"
            /\ Len(fit.value) = tspan.v
            /\ \A k \in 1..tspan.v :
                  /\ fitted_predicted.v.rows[k][3] * sT = fit.value[k][1] * sM
                  /\ fitted_predicted.v.rows[k][4] * sT = fit.value[k][2] * sM

\* a forecast over a grid longer than the fit window, with fitted rates that differ from
\* the ones params held before, and whose infected moved within the fit window
C18_Witness ==
    /\ call.fn = "forecast" /\ tspan.v < Len(observed_IR.v)
    /\ Rates(params) # call.before
    /\ fitted_predicted.v.rows[tspan.v][3] * ScaleOf(tspan.v)
          = final(data.v, result.v.residual).value[tspan.v][1] * fitted_predicted.v.scale
    /\ fitted_predicted.v.rows[tspan.v][3] # fitted_predicted.v.rows[1][3]

\* C19: whatever the order in which the records arrived, the rows the fit setup selects
\* with loc[0:(days-1)] are the first `days` records in ascending day order, the rows
\* of observed_IR[:days].
C19_FitDataAligned ==
    call.fn = "fit_setup" =>
        /\ call.raised = "none"
        /\ data.def
        /\ data.v = SubSeq(IRValues(df_covid_history), 1, Min(days, Len(df_covid_history)))

====
